---- MODULE Spec2Model ----
(***************************************************************************)
(* A model of the rs-release crate (src/src/lib.rs): the os-release line   *)
(* parser, its lazy result iterator and its three entry points.            *)
(*                                                                         *)
(* A Rust `str` is modelled as a sequence of characters; every character   *)
(* is a one-element token and Utf8Len gives the number of bytes of its     *)
(* UTF-8 encoding, so that byte-indexed slicing (`&s[a..b]`) can be told   *)
(* apart from character counting (`s.chars().position(..)`).  A panic      *)
(* (a slice index that is out of order or not on a character boundary) is  *)
(* modelled as the outcome kind "Panic": the call unwinds and returns      *)
(* nothing to the caller.                                                  *)
(***************************************************************************)
EXTENDS Integers, Sequences, FiniteSets, TLC

VARIABLES
    fs,         \* file system: path -> TRUE when File::open(path) succeeds
    entry,      \* the entry point the caller used ("none" before the call)
    ret,        \* the value the entry point returned: "none", "Ok", "Io", "NoFile"
    opened,     \* the paths File::open was called on, in call order
    source,     \* the path whose file feeds the iterator ("" when none does)
    lines,      \* the line source the iterator was built on: a sequence of items
    nread,      \* how many items have been pulled from the line source
    requested,  \* how many times the caller called next() on the iterator
    results,    \* the items next() has returned, in order
    pc,         \* "start", "failed", "iter", "ended", "panicked", "dropped"
    arg,        \* the &str handed to a direct call of a string function
    out         \* the outcome of that call (kind "None" before it)

vars == <<fs, entry, ret, opened, source, lines, nread, requested, results, pc, arg, out>>

-----------------------------------------------------------------------------
(* Bounds of the model *)

\* longest line given to extract_variable_and_value / trim_quotes in SpecLine
MaxLineLen == 4
\* most line items in a line source (a file's or a string's lines) in Spec
MaxLines == 2

-----------------------------------------------------------------------------
(* Characters and strings *)

\* A two-byte character (U+00E9); every other character of the alphabet is ASCII.
MultiByte == "U+E9"

Alphabet == {"I", "D", " ", "=", "#", "\"", "'", MultiByte}

Utf8Len(c) == IF c = MultiByte THEN 2 ELSE 1

RECURSIVE ByteLen(_)
ByteLen(s) == IF s = <<>> THEN 0 ELSE Utf8Len(Head(s)) + ByteLen(Tail(s))

\* Byte offset at which the character of 1-based index k + 1 starts.
ByteOffset(s, k) == ByteLen(SubSeq(s, 1, k))

IsCharBoundary(s, i) == \E k \in 0..Len(s) : ByteOffset(s, k) = i

\* char::is_whitespace, on the alphabet
IsWhitespace(c) == c = " "

RECURSIVE TrimLeft(_)
TrimLeft(s) ==
    IF s # <<>> /\ IsWhitespace(Head(s)) THEN TrimLeft(Tail(s)) ELSE s

RECURSIVE TrimRight(_)
TrimRight(s) ==
    IF s # <<>> /\ IsWhitespace(s[Len(s)]) THEN TrimRight(SubSeq(s, 1, Len(s) - 1)) ELSE s

Trim(s) == TrimRight(TrimLeft(s))

\* str::starts_with / str::ends_with for a one-character pattern
StartsWith(s, q) == s # <<>> /\ s[1] = q
EndsWith(s, q) == s # <<>> /\ s[Len(s)] = q

Sliced(s) == [ok |-> TRUE, s |-> s]
SlicePanic == [ok |-> FALSE, s |-> <<>>]

\* &s[a..b] with byte indices a, b: panics unless a <= b <= s.len() and both are
\* character boundaries.
ByteSlice(s, a, b) ==
    IF a <= b /\ b <= ByteLen(s) /\ IsCharBoundary(s, a) /\ IsCharBoundary(s, b)
    THEN LET ka == CHOOSE k \in 0..Len(s) : ByteOffset(s, k) = a
             kb == CHOOSE k \in 0..Len(s) : ByteOffset(s, k) = b
         IN Sliced(SubSeq(s, ka + 1, kb))
    ELSE SlicePanic

\* s.chars().position(|c| c == '='): the 0-based CHARACTER index of the first '=',
\* -1 for None.
CharPosition(s) ==
    IF \E i \in 1..Len(s) : s[i] = "="
    THEN (CHOOSE i \in 1..Len(s) : s[i] = "=" /\ \A j \in 1..(i - 1) : s[j] # "=") - 1
    ELSE -1

-----------------------------------------------------------------------------
(* Program constants *)

PATHS == <<"/etc/os-release", "/usr/lib/os-release">>

QUOTES == {"\"", "'"}

COMMON_KEYS == {
    <<"A","N","S","I","_","C","O","L","O","R">>,
    <<"B","U","G","_","R","E","P","O","R","T","_","U","R","L">>,
    <<"B","U","I","L","D","_","I","D">>,
    <<"C","P","E","_","N","A","M","E">>,
    <<"H","O","M","E","_","U","R","L">>,
    <<"I","D">>,
    <<"I","D","_","L","I","K","E">>,
    <<"N","A","M","E">>,
    <<"P","R","E","T","T","Y","_","N","A","M","E">>,
    <<"P","R","I","V","A","C","Y","_","P","O","L","I","C","Y","_","U","R","L">>,
    <<"S","U","P","P","O","R","T","_","U","R","L">>,
    <<"V","A","R","I","A","N","T">>,
    <<"V","A","R","I","A","N","T","_","I","D">>,
    <<"V","E","R","S","I","O","N">>,
    <<"V","E","R","S","I","O","N","_","C","O","D","E","N","A","M","E">>,
    <<"V","E","R","S","I","O","N","_","I","D">>
}

-----------------------------------------------------------------------------
(* Outcomes of a call: what next() yields, or a panic *)

\* Ok((key, val)); borrowed tells Cow::Borrowed (a COMMON_KEYS entry) from Cow::Owned
OkEntry(k, v, b) == [kind |-> "Ok", key |-> k, val |-> v, borrowed |-> b]
ParseError == [kind |-> "ParseError", key |-> <<>>, val |-> <<>>, borrowed |-> FALSE]
IoError == [kind |-> "Io", key |-> <<>>, val |-> <<>>, borrowed |-> FALSE]
Panic == [kind |-> "Panic", key |-> <<>>, val |-> <<>>, borrowed |-> FALSE]
NoOutcome == [kind |-> "None", key |-> <<>>, val |-> <<>>, borrowed |-> FALSE]

-----------------------------------------------------------------------------
(* The string functions *)

trim_quotes(s) ==
    IF \E q \in QUOTES : StartsWith(s, q) /\ EndsWith(s, q)
    THEN ByteSlice(s, 1, ByteLen(s) - 1)
    ELSE Sliced(s)

extract_variable_and_value(s) ==
    LET equal == CharPosition(s) IN
    IF equal = -1 THEN ParseError
    ELSE LET var == ByteSlice(s, 0, equal) IN
         IF ~var.ok THEN Panic
         ELSE LET val == ByteSlice(s, equal + 1, ByteLen(s)) IN
              IF ~val.ok THEN Panic
              ELSE LET v == trim_quotes(Trim(val.s))
                       k == Trim(var.s)
                   IN IF ~v.ok THEN Panic
                      ELSE OkEntry(k, v.s, k \in COMMON_KEYS)

-----------------------------------------------------------------------------
(* Line sources *)

\* An item of a line source: io::Result<Cow<str>>.  A read failure carries no text.
OkLine(l) == [ok |-> TRUE, line |-> l]
ErrLine == [ok |-> FALSE, line |-> <<>>]

\* The lines a source may hold: blank, whitespace only, comment, indented comment,
\* no separator, plain entry, common key, spaced and quoted entry, a value that is
\* one quote character, a multi-byte key.
SampleLines == {
    <<>>,
    <<" ">>,
    <<"#", "D">>,
    <<" ", "#">>,
    <<"D">>,
    <<"D", "=", "I">>,
    <<"I", "D", "=", "D">>,
    <<" ", "D", " ", "=", " ", "'", "I", " ", "D", "'", " ">>,
    <<"D", "=", "\"">>,
    <<MultiByte, "D", "=", "I">>
}

SeqsUpTo(S, n) == UNION {[1..m -> S] : m \in 0..n}

\* What a file may hold: any item may be a read failure.
FileContents == SeqsUpTo({OkLine(l) : l \in SampleLines} \cup {ErrLine}, MaxLines)

\* data.lines().map(Cow::Borrowed).map(Ok): every item of a string is a successful read.
StrContents == SeqsUpTo({OkLine(l) : l \in SampleLines}, MaxLines)

-----------------------------------------------------------------------------
(* parse_os_release_lines: lines.filter(..).map(..) *)

\* the filter closure, had it let only successfully read lines through
SurvivesOkOnly(item) ==
    /\ item.ok
    /\ LET trimmed_line == TrimLeft(item.line)
       IN trimmed_line # <<>> /\ ~StartsWith(trimmed_line, "#")

\* the filter closure
Survives(item) ==
    IF item.ok
    THEN LET trimmed_line == TrimLeft(item.line)
         IN trimmed_line # <<>> /\ ~StartsWith(trimmed_line, "#")
    ELSE TRUE

\* the map closure
Transform(item) ==
    IF item.ok THEN extract_variable_and_value(item.line) ELSE IoError

\* Filter::next: pull items after the first `from` until one survives; its 1-based
\* index, or 0 when the source ends first.
FilterNext(ls, from) ==
    IF \E j \in (from + 1)..Len(ls) : Survives(ls[j])
    THEN CHOOSE j \in (from + 1)..Len(ls) :
            Survives(ls[j]) /\ \A i \in (from + 1)..(j - 1) : ~Survives(ls[i])
    ELSE 0

\* the iterator, had it collected its line source when it was built
parse_os_release_lines_eager(input) ==
    /\ lines' = input
    /\ nread' = Len(input)
    /\ requested' = 0
    /\ results' = <<>>
    /\ pc' = "iter"

\* Building the iterator pulls nothing.
parse_os_release_lines(input) ==
    /\ lines' = input
    /\ nread' = 0
    /\ requested' = 0
    /\ results' = <<>>
    /\ pc' = "iter"

\* One call of next() on the returned iterator.
NextItem ==
    /\ pc = "iter"
    /\ requested' = requested + 1
    /\ LET j == FilterNext(lines, nread) IN
       IF j = 0
       THEN /\ nread' = Len(lines)
            /\ pc' = "ended"
            /\ UNCHANGED results
       ELSE LET r == Transform(lines[j]) IN
            /\ nread' = j
            /\ IF r.kind = "Panic"
               THEN pc' = "panicked" /\ UNCHANGED results
               ELSE pc' = "iter" /\ results' = Append(results, r)
    /\ UNCHANGED <<fs, entry, ret, opened, source, lines, arg, out>>

\* The caller stops consuming and drops the iterator.
Stop ==
    /\ pc = "iter"
    /\ pc' = "dropped"
    /\ UNCHANGED <<fs, entry, ret, opened, source, lines, nread, requested, results, arg, out>>

-----------------------------------------------------------------------------
(* Entry points *)

AllPaths == {PATHS[1], PATHS[2], "", "/etc/shadow"}

\* File::open(path)
FileOpens(f, path) == f[path]

\* parse_os_release, had it returned a sequence whether or not the file opened
ParseOsReleaseRetAlwaysOk(opens) == "Ok"

\* parse_os_release's return value for the outcome of File::open(path)?
ParseOsReleaseRet(opens) == IF opens THEN "Ok" ELSE "Io"

CallParseOsReleaseLines ==
    /\ pc = "start"
    /\ \E input \in FileContents : parse_os_release_lines(input)
    /\ entry' = "parse_os_release_lines"
    /\ ret' = "Ok"
    /\ UNCHANGED <<fs, opened, source, arg, out>>

CallParseOsReleaseStr ==
    /\ pc = "start"
    /\ \E data \in StrContents : parse_os_release_lines(data)
    /\ entry' = "parse_os_release_str"
    /\ ret' = "Ok"
    /\ UNCHANGED <<fs, opened, source, arg, out>>

\* parse_os_release(path), for a caller of it whose own entry point is e
parse_os_release(path, e) ==
    /\ entry' = e
    /\ opened' = Append(opened, path)
    /\ ret' = ParseOsReleaseRet(FileOpens(fs, path))
    /\ IF ParseOsReleaseRet(FileOpens(fs, path)) = "Ok"
       THEN /\ source' = path
            /\ \E content \in FileContents : parse_os_release_lines(content)
       ELSE /\ pc' = "failed"
            /\ UNCHANGED <<source, lines, nread, requested, results>>
    /\ UNCHANGED <<fs, arg, out>>

CallParseOsRelease ==
    /\ pc = "start"
    /\ \E path \in AllPaths : parse_os_release(path, "parse_os_release")

\* get_os_release's loop, had it gone on after a path opened
GetOsReleaseTriesAll(f, i) == SubSeq(PATHS, i, Len(PATHS))

\* The paths get_os_release calls parse_os_release on, in order, from PATHS[i] on:
\* the loop returns at the first Ok.
RECURSIVE GetOsReleaseTries(_, _)
GetOsReleaseTries(f, i) ==
    IF i > Len(PATHS) THEN <<>>
    ELSE IF ParseOsReleaseRet(FileOpens(f, PATHS[i])) = "Ok"
         THEN <<PATHS[i]>>
         ELSE <<PATHS[i]>> \o GetOsReleaseTries(f, i + 1)

CallGetOsRelease ==
    /\ pc = "start"
    /\ LET tries == GetOsReleaseTries(fs, 1)
           last == tries[Len(tries)]
       IN /\ opened' = opened \o tries
          /\ IF ParseOsReleaseRet(FileOpens(fs, last)) = "Ok"
             THEN /\ ret' = "Ok"
                  /\ source' = last
                  /\ \E content \in FileContents : parse_os_release_lines(content)
             ELSE /\ ret' = "NoFile"
                  /\ pc' = "failed"
                  /\ UNCHANGED <<source, lines, nread, requested, results>>
    /\ entry' = "get_os_release"
    /\ UNCHANGED <<fs, arg, out>>

-----------------------------------------------------------------------------
(* The specification of the library: a caller picks an entry point, then pulls *)

Init ==
    /\ fs \in {f \in [AllPaths -> BOOLEAN] : ~f[""]}
    /\ entry = "none"
    /\ ret = "none"
    /\ opened = <<>>
    /\ source = ""
    /\ lines = <<>>
    /\ nread = 0
    /\ requested = 0
    /\ results = <<>>
    /\ pc = "start"
    /\ arg = <<>>
    /\ out = NoOutcome

Next ==
    \/ CallParseOsReleaseLines
    \/ CallParseOsReleaseStr
    \/ CallParseOsRelease
    \/ CallGetOsRelease
    \/ NextItem
    \/ Stop

Spec == Init /\ [][Next]_vars

-----------------------------------------------------------------------------
(* The specification of the string functions: one call on every short line *)

AllStrings == SeqsUpTo(Alphabet, MaxLineLen)

InitLine ==
    /\ fs = [p \in AllPaths |-> FALSE]
    /\ entry = "none"
    /\ ret = "none"
    /\ opened = <<>>
    /\ source = ""
    /\ lines = <<>>
    /\ nread = 0
    /\ requested = 0
    /\ results = <<>>
    /\ pc = "fn"
    /\ arg \in AllStrings
    /\ out = NoOutcome

CallExtract ==
    /\ pc = "fn"
    /\ out' = extract_variable_and_value(arg)
    /\ pc' = "returned"
    /\ UNCHANGED <<fs, entry, ret, opened, source, lines, nread, requested, results, arg>>

NextLine == CallExtract

SpecLine == InitLine /\ [][NextLine]_vars

-----------------------------------------------------------------------------
(* Vocabulary of the claims, stated on the text of a line and not through the
   parser's own functions *)

\* a line that is empty or begins with '#' once its leading whitespace is stripped
BlankOrComment(l) ==
    \/ \A i \in 1..Len(l) : l[i] = " "
    \/ \E i \in 1..Len(l) : l[i] = "#" /\ \A j \in 1..(i - 1) : l[j] = " "

\* an item that must produce a result: a read failure, or a line that is neither
\* blank nor a comment
Kept(item) == ~item.ok \/ ~BlankOrComment(item.line)

\* how many of the first i items of ls must produce a result
Rank(ls, i) == Cardinality({j \in 1..i : Kept(ls[j])})

\* the index of the k-th kept item of ls; Len(ls) when ls has fewer than k
KthKept(ls, k) ==
    IF k = 0 THEN 0
    ELSE IF \E j \in 1..Len(ls) : Kept(ls[j]) /\ Rank(ls, j) = k
         THEN CHOOSE j \in 1..Len(ls) : Kept(ls[j]) /\ Rank(ls, j) = k
         ELSE Len(ls)

HasSeparator(l) == \E i \in 1..Len(l) : l[i] = "="

Malformed(item) == item.ok /\ ~BlankOrComment(item.line) /\ ~HasSeparator(item.line)

FirstSeparator(l) == CHOOSE i \in 1..Len(l) : l[i] = "=" /\ \A j \in 1..(i - 1) : l[j] # "="

\* the text before the first '=', trimmed
KeyText(l) == Trim(SubSeq(l, 1, FirstSeparator(l) - 1))

\* the text after the first '=', trimmed
ValueText(l) == Trim(SubSeq(l, FirstSeparator(l) + 1, Len(l)))

SameQuoteEnds(v) == \E q \in QUOTES : v # <<>> /\ v[1] = q /\ v[Len(v)] = q

\* one layer of enclosing quotes removed; a value that is a single quote character
\* has no matching pair and is left as it is
QuoteStripped(v) ==
    IF Len(v) >= 2 /\ SameQuoteEnds(v) THEN SubSeq(v, 2, Len(v) - 1) ELSE v

\* a leading or a trailing quote character that has no partner at the other end
UnmatchedQuote(v) ==
    /\ v # <<>>
    /\ v[1] \in QUOTES \/ v[Len(v)] \in QUOTES
    /\ Len(v) = 1 \/ ~SameQuoteEnds(v)

SingleByteKey(l) == \A i \in 1..(FirstSeparator(l) - 1) : Utf8Len(l[i]) = 1

\* the caller pulled until the iterator gave nothing more
Drained == pc \in {"ended", "panicked"}

IsIterator == pc \in {"iter", "ended", "panicked", "dropped"}

-----------------------------------------------------------------------------
(* Claims on the result sequence (Spec) *)

\* C1: once parse_os_release_str's sequence is drained, it holds exactly one item per
\* input line that is neither blank nor a comment, in the order of those lines.
C1_OneItemPerKeptLine ==
    (entry = "parse_os_release_str" /\ Drained) =>
        /\ Len(results) = Rank(lines, Len(lines))
        /\ \A i \in 1..Len(lines) :
              Kept(lines[i]) => results[Rank(lines, i)] = Transform(lines[i])

\* C3: a pulled line without '=' gives a ParseError at its position, and once the
\* sequence is drained every kept line after it has been yielded too.
C3_MalformedDoesNotEnd ==
    \A i \in 1..nread :
        Malformed(lines[i]) =>
            /\ Rank(lines, i) <= Len(results)
            /\ results[Rank(lines, i)] = ParseError
            /\ Drained => \A j \in (i + 1)..Len(lines) :
                              Kept(lines[j]) => Rank(lines, j) <= Len(results)

\* C5: a pulled read failure gives an Io error at its position among the kept items,
\* and once the sequence is drained every kept line after it has been yielded too.
C5_ReadFailureSurfaces ==
    \A i \in 1..nread :
        ~lines[i].ok =>
            /\ Rank(lines, i) <= Len(results)
            /\ results[Rank(lines, i)] = IoError
            /\ Drained => \A j \in (i + 1)..Len(lines) :
                              Kept(lines[j]) => Rank(lines, j) <= Len(results)

\* C7: building the sequence pulls nothing; after k calls of next() the source has
\* been pulled up to the k-th kept item and no further, and nothing beyond it has
\* been transformed; this also holds when the caller stops after an error.
C7_PullBased ==
    IsIterator =>
        /\ nread = KthKept(lines, requested)
        /\ Len(results) <= requested
        /\ Len(results) <= Rank(lines, nread)

C7_Witness ==
    /\ pc = "dropped"
    /\ requested = 1
    /\ Len(results) = 1
    /\ results[1].kind # "Ok"
    /\ nread = 1
    /\ Len(lines) = 2
    /\ Kept(lines[2])

-----------------------------------------------------------------------------
(* Claims on the entry points (Spec) *)

\* C6: get_os_release opens PATHS in order and stops at the first that opens, whose
\* sequence it returns; it returns NoFile exactly when no path opens; whatever the
\* sequence then yields, no further path is opened.
C6_FirstPathThatOpens ==
    entry = "get_os_release" =>
        /\ ret \in {"Ok", "NoFile"}
        /\ ret = "NoFile" <=> \A i \in 1..Len(PATHS) : ~fs[PATHS[i]]
        /\ ret = "NoFile" => opened = PATHS /\ pc = "failed" /\ source = ""
        /\ ret = "Ok" =>
              \E i \in 1..Len(PATHS) :
                  /\ fs[PATHS[i]]
                  /\ \A j \in 1..(i - 1) : ~fs[PATHS[j]]
                  /\ opened = SubSeq(PATHS, 1, i)
                  /\ source = PATHS[i]
                  /\ IsIterator

C6_Witness ==
    /\ entry = "get_os_release"
    /\ fs[PATHS[1]] /\ fs[PATHS[2]]
    /\ source = PATHS[1]
    /\ Len(results) = 2
    /\ results[1] = ParseError
    /\ results[2] = IoError

\* C8 as stated: in every entry point a failure to open is reported to the caller
\* as an error value, no path is opened twice, and every read failure and malformed
\* line pulled is yielded as an error.
C8_EveryFailureReported ==
    /\ (\E i \in 1..Len(opened) : ~fs[opened[i]]) => ret \in {"Io", "NoFile"}
    /\ \A i, j \in 1..Len(opened) : opened[i] = opened[j] => i = j
    /\ \A i \in 1..nread :
          /\ ~lines[i].ok =>
                Rank(lines, i) <= Len(results) /\ results[Rank(lines, i)] = IoError
          /\ Malformed(lines[i]) =>
                Rank(lines, i) <= Len(results) /\ results[Rank(lines, i)] = ParseError

\* C8, amended: parse_os_release reports a failure to open as Io; get_os_release
\* reports failures to open only as one NoFile, when every path failed; no path is
\* opened twice; every read failure and malformed line pulled is yielded as an
\* error, and each call of next() yields at most one item.
C8_FailuresReportedButFallback ==
    /\ (entry = "parse_os_release" /\ ~fs[opened[1]]) => ret = "Io"
    /\ entry = "get_os_release" =>
          (ret = "NoFile" <=> \A i \in 1..Len(opened) : ~fs[opened[i]])
    /\ \A i, j \in 1..Len(opened) : opened[i] = opened[j] => i = j
    /\ \A i \in 1..nread :
          /\ ~lines[i].ok =>
                Rank(lines, i) <= Len(results) /\ results[Rank(lines, i)] = IoError
          /\ Malformed(lines[i]) =>
                Rank(lines, i) <= Len(results) /\ results[Rank(lines, i)] = ParseError
    /\ Len(results) <= requested

C8_Witness ==
    /\ entry = "get_os_release"
    /\ ~fs[PATHS[1]]
    /\ ret = "Ok"
    /\ Len(results) = 2
    /\ results[1] = IoError
    /\ results[2] = ParseError

\* C9: parse_os_release on a path that does not open returns Io and no sequence;
\* on a path that opens it returns a sequence, and stays Ok whatever the lines yield.
C9_OpenFailureIsUpfront ==
    entry = "parse_os_release" =>
        /\ Len(opened) = 1
        /\ ~fs[opened[1]] =>
              /\ ret = "Io"
              /\ pc = "failed"
              /\ lines = <<>> /\ results = <<>> /\ requested = 0 /\ source = ""
        /\ fs[opened[1]] =>
              /\ ret = "Ok"
              /\ IsIterator
              /\ source = opened[1]

C9_Witness ==
    /\ entry = "parse_os_release"
    /\ opened = <<"">>
    /\ ret = "Io"
    /\ pc = "failed"

-----------------------------------------------------------------------------
(* Claims on the string functions (SpecLine) *)

\* C2: a kept line with a '=' gives Ok with the trimmed text before the first '=' as
\* key and the trimmed, quote-stripped text after it as value, multi-byte
\* characters included (stated for values other than a single quote character).
C2_KeyValueSplit ==
    (pc = "returned" /\ ~BlankOrComment(arg) /\ HasSeparator(arg)
        /\ ~(Len(ValueText(arg)) = 1 /\ SameQuoteEnds(ValueText(arg)))) =>
        /\ out.kind = "Ok"
        /\ out.key = KeyText(arg)
        /\ out.val = QuoteStripped(ValueText(arg))

\* C4: a trimmed value that starts and ends with the same quote character is yielded
\* without its first and last character, any other value unchanged (stated for lines
\* whose key is single-byte).
C4_OneQuoteLayer ==
    (pc = "returned" /\ ~BlankOrComment(arg) /\ HasSeparator(arg) /\ SingleByteKey(arg)) =>
        LET v == ValueText(arg) IN
        /\ out.kind = "Ok"
        /\ out.val = IF SameQuoteEnds(v) THEN SubSeq(v, 2, Len(v) - 1) ELSE v

\* C10: a trimmed value with a single unmatched leading or trailing quote character,
\* a value of just one quote character included, is yielded unchanged in an Ok entry
\* (stated for lines whose key is single-byte).
C10_UnmatchedQuoteKept ==
    (pc = "returned" /\ ~BlankOrComment(arg) /\ HasSeparator(arg) /\ SingleByteKey(arg)
        /\ UnmatchedQuote(ValueText(arg))) =>
        /\ out.kind = "Ok"
        /\ out.val = ValueText(arg)

-----------------------------------------------------------------------------
(* What holds beside the violated statements: the extent of the two slips *)

\* Under Spec: a sequence drained without a panic is exactly the transforms of the
\* kept items, in order, and the filter keeps exactly the kept items.
RunsWithoutPanicAreExact ==
    /\ \A i \in 1..Len(lines) : Survives(lines[i]) = Kept(lines[i])
    /\ pc = "ended" =>
          /\ Len(results) = Rank(lines, Len(lines))
          /\ \A i \in 1..Len(lines) :
                Kept(lines[i]) => results[Rank(lines, i)] = Transform(lines[i])

\* Under SpecLine: a line without '=' gives ParseError; a line with a single-byte key
\* and a value other than one quote character gives the key and value of its text,
\* the key borrowed exactly when it is a common key.
SingleByteLinesSplitAsClaimed ==
    pc = "returned" =>
        IF ~HasSeparator(arg) THEN out = ParseError
        ELSE (SingleByteKey(arg) /\ ~(Len(ValueText(arg)) = 1 /\ SameQuoteEnds(ValueText(arg)))) =>
                out = OkEntry(KeyText(arg), QuoteStripped(ValueText(arg)),
                              KeyText(arg) \in COMMON_KEYS)

====
